---- MODULE Spec2Model ----
(***************************************************************************)
(* A model of src/src/index.js: a scroll- and mouse-driven parallax scene. *)
(*                                                                         *)
(* Main owns one spring with the two animated fields top and mouse.  The   *)
(* DOM handlers onScroll and onMouseMove call set() on it, every Image     *)
(* owns a hover flag and a spring for its hover factor, Stars owns the     *)
(* accumulator theta, and Scene maps (top, mouse) to the props of every    *)
(* layer.  One action of the model is one handler, or one animation frame. *)
(*                                                                         *)
(* Units.  top and mouse are whole pixels.  A hover factor is counted in   *)
(* hundredths (100 is 1, 125 is 1.25).  A derived prop is a rational       *)
(* [n, d] in lowest terms with d > 0.  theta is an IEEE-754 double, held   *)
(* exactly (see Double below).  sin and cos are evaluated in millionths.   *)
(*                                                                         *)
(* Init is the state after the first commit of the tree.  (Line 89 reads   *)
(* `vertices` inside the useMemo callback that initialises it; a build     *)
(* that keeps `const` as it is throws there on the first render and no     *)
(* scene exists.  The model is of the builds in which the scene mounts.)   *)
(***************************************************************************)
EXTENDS Integers, Sequences, FiniteSets, TLC

(***************************************************************************)
(* Bounds of the model.                                                    *)
(***************************************************************************)
\* Frames after which the frame action of Spec stops.
MaxFrames == 7
\* A spring whose value is this close to its target lands on it.
RestDelta == 300

\* The image descriptors of ./data (not under src/): [url, x, y, factor, z, scale].
data ==
  << [url |-> "a", x |-> -2, y |-> 0, factor |-> 10, z |-> 3, scale |-> 1],
     [url |-> "b", x |-> 3, y |-> -4, factor |-> 25, z |-> 2, scale |-> 2] >>

Images == 1..Len(data)

\* Canvas sizes the window takes (the canvas fills the window).
Sizes == { [width |-> 80, height |-> 60], [width |-> 160, height |-> 120] }
\* Scroll offsets the container can be scrolled to.
ScrollTops == {0, 150, 540}
\* Pointer positions (clientX, clientY) of a pointer-move event.
Pointers == { <<40, 30>>, <<80, 60>> }

(***************************************************************************)
(* Rationals.                                                              *)
(***************************************************************************)
Abs(i) == IF i < 0 THEN -i ELSE i

RECURSIVE GCD(_, _)
GCD(a, b) == IF b = 0 THEN a ELSE GCD(b, a % b)

\* n/d in lowest terms, d > 0.
Rat(n, d) ==
  LET g == GCD(Abs(n), Abs(d))
      s == IF d < 0 THEN -1 ELSE 1
  IN  [n |-> s * (n \div g), d |-> s * (d \div g)]

RInt(i) == [n |-> i, d |-> 1]
RAdd(a, b) == Rat(a.n * b.d + b.n * a.d, a.d * b.d)
RSub(a, b) == Rat(a.n * b.d - b.n * a.d, a.d * b.d)
RMul(a, b) == Rat(a.n * b.n, a.d * b.d)
RDiv(a, b) == Rat(a.n * b.d, a.d * b.n)
RLt(a, b) == a.n * b.d < b.n * a.d
RLe(a, b) == a.n * b.d <= b.n * a.d
\* Math.round: the nearest integer, a half rounding up.
RRound(a) == (2 * a.n + a.d) \div (2 * a.d)

(***************************************************************************)
(* IEEE-754 doubles, for theta.  Every value theta takes is a multiple of  *)
(* 2^-59 (the unit in the last place of 0.01) below 2^-3, so a double is   *)
(* held as [hi, lo], standing for (hi * 2^28 + lo) * 2^-59 with            *)
(* 0 <= lo < 2^28, and an operation rounds its exact result to 53          *)
(* significant bits, to nearest, ties to even.                             *)
(***************************************************************************)
Limb == 2^28

\* The spacing of the doubles around hi * 2^28, in units of 2^-59.
Ulp(hi) ==
  IF hi < 2^25 THEN 1 ELSE IF hi < 2^26 THEN 2 ELSE IF hi < 2^27 THEN 4 ELSE 8

\* hi * 2^28 + lo (lo may exceed a limb) rounded to a double.
DRound(hi, lo) ==
  LET h0 == hi + lo \div Limb
      l0 == lo % Limb
      u == Ulp(h0)
      q == l0 \div u
      r == l0 % u
      up == IF 2 * r < u THEN FALSE
            ELSE IF 2 * r > u THEN TRUE
            ELSE q % 2 = 1
      l1 == IF up THEN (q + 1) * u ELSE q * u
  IN  [hi |-> h0 + l1 \div Limb, lo |-> l1 % Limb]

DZero == [hi |-> 0, lo |-> 0]
\* The double nearest to 0.01: 0x147AE147AE147B * 2^-59.
D001 == [hi |-> 21474836, lo |-> 128849019]

\* a + b
DAdd(a, b) == DRound(a.hi + b.hi, a.lo + b.lo)

\* n * 0.01: the exact product n * D001, rounded once.
RECURSIVE ExactTimes(_)
ExactTimes(n) ==
  IF n = 0 THEN DZero
  ELSE LET p == ExactTimes(n - 1)
           l == p.lo + D001.lo
       IN  [hi |-> p.hi + D001.hi + l \div Limb, lo |-> l % Limb]
DTimes001(n) == LET p == ExactTimes(n) IN DRound(p.hi, p.lo)

\* a < b
DLt(a, b) == a.hi < b.hi \/ (a.hi = b.hi /\ a.lo < b.lo)

\* A double below 2^-3 in millionths, to the nearest 100 millionths: theta's
\* rounding error is below 10^-16 and does not show at this precision.
Micro(a) == ((2 * a.hi + D001.hi) \div (2 * D001.hi)) * 10000

(***************************************************************************)
(* sin and cos in millionths, of an angle in millionths of a radian, by    *)
(* their Taylor polynomials (the angles of the model stay below 1 radian). *)
(***************************************************************************)
Million == 10^6

\* a * b, of two non-negative numbers in millionths.
MulFix(a, b) == ((a \div 1000) * b) \div 1000 + ((a % 1000) * b) \div Million

Sin(x) ==
  LET x2 == MulFix(x, x)
      x3 == MulFix(x2, x)
      x5 == MulFix(x3, x2)
  IN  x - x3 \div 6 + x5 \div 120

Cos(x) ==
  LET x2 == MulFix(x, x)
      x4 == MulFix(x2, x2)
  IN  Million - x2 \div 2 + x4 \div 24

\* THREE.Math.degToRad: degrees * (Math.PI / 180), in millionths.
degToRad(x) == (x * 1745) \div 100000

(***************************************************************************)
(* react-spring's interpolators, as index.js calls them.  A call           *)
(* v.interpolate(range, output) passes no extrapolate argument, and the    *)
(* interpolator then extends the first and the last segment of the ramp    *)
(* beyond the range ("extend"); "clamp" would pin the input to the range.  *)
(***************************************************************************)
RSeq(s) == [i \in DOMAIN s |-> RInt(s[i])]

\* The segment of the ramp an input falls in: the first whose upper stop
\* is >= input, the last one otherwise.
RECURSIVE findRangeFrom(_, _, _)
findRangeFrom(i, input, range) ==
  IF i >= Len(range) - 1 THEN i
  ELSE IF RLe(input, range[i + 1]) THEN i
  ELSE findRangeFrom(i + 1, input, range)
findRange(input, range) == findRangeFrom(1, input, range)

\* One segment: linear from (inputMin, outputMin) to (inputMax, outputMax),
\*   (x - inputMin) / (inputMax - inputMin) * (outputMax - outputMin) + outputMin
\* where x is the input, pinned to the segment when extrapolate is "clamp".
\* The differences are kept as unreduced fractions and the result reduced once.
interpolateSegment(input, inputMin, inputMax, outputMin, outputMax, extrapolate) ==
  LET lo == IF RLt(input, inputMin) /\ extrapolate = "clamp" THEN inputMin ELSE input
      x == IF RLt(inputMax, lo) /\ extrapolate = "clamp" THEN inputMax ELSE lo
      dx == [n |-> x.n * inputMin.d - inputMin.n * x.d, d |-> x.d * inputMin.d]
      dr == [n |-> inputMax.n * inputMin.d - inputMin.n * inputMax.d,
             d |-> inputMax.d * inputMin.d]
      dy == [n |-> outputMax.n * outputMin.d - outputMin.n * outputMax.d,
             d |-> outputMax.d * outputMin.d]
      num == dx.n * dr.d * dy.n
      den == dx.d * dr.n * dy.d
  IN  IF outputMin = outputMax THEN outputMin
      ELSE IF inputMin = inputMax
        THEN (IF RLe(input, inputMin) THEN outputMin ELSE outputMax)
      ELSE Rat(num * outputMin.d + outputMin.n * den, den * outputMin.d)

\* createInterpolator(range, output, extrapolate) applied to input.
createInterpolator(range, output, extrapolate, input) ==
  LET i == findRange(input, range)
  IN  interpolateSegment(input, range[i], range[i + 1], output[i], output[i + 1],
                         extrapolate)

\* The call sites pass no third argument.
DefaultExtrapolate == "extend"

\* value.interpolate(range, output) at input.
interpolate(range, output, input) ==
  createInterpolator(range, output, DefaultExtrapolate, input)

\* A colour '#rrggbb', given by its six hex digits, as [r, g, b] in 0..255.
HexToRgb(h) ==
  [r |-> 16 * h[1] + h[2], g |-> 16 * h[3] + h[4], b |-> 16 * h[5] + h[6]]

\* The string interpolator over colours: each channel of the 'rgba(r, g, b, a)'
\* form goes through its own interpolator, and r, g, b are rounded.
interpolateColor(range, colors, input) ==
  LET rgb == [i \in DOMAIN colors |-> HexToRgb(colors[i])]
      chan(f(_)) == interpolate(range, [i \in DOMAIN colors |-> RInt(f(rgb[i]))], input)
      R(c) == c.r
      G(c) == c.g
      B(c) == c.b
  IN  [r |-> RRound(chan(R)), g |-> RRound(chan(G)), b |-> RRound(chan(B))]

(***************************************************************************)
(* The state.                                                              *)
(***************************************************************************)
VARIABLES
  size,       \* useThree().size, and the window's inner size: [width, height]
  scrollTop,  \* the scroll container's scroll offset
  pointer,    \* the pointer's position <<clientX, clientY>>
  top,        \* the animated value top of Main's spring
  mouse,      \* the animated value mouse of Main's spring, <<x, y>>
  target,     \* the targets set() gave Main's spring: [top, mouse]
  hovered,    \* per image: the hover flag of useState
  factor,     \* per image: the animated hover factor, in hundredths
  factorTo,   \* per image: the target of the hover factor, in hundredths
  theta,      \* the accumulator of the render callback Stars subscribed
  frames,     \* animation frames run so far
  scene,      \* the props last applied to the objects of the scene
  composer,   \* the EffectComposer: [width, height, renders]
  glRenders   \* renders made by the default render step

vars == << size, scrollTop, pointer, top, mouse, target, hovered, factor,
           factorTo, theta, frames, scene, composer, glRenders >>

(***************************************************************************)
(* Scene: the props of each layer, from top, mouse and the canvas size.    *)
(***************************************************************************)
\* const scrollMax = size.height * 4.5
scrollMax(sz) == Rat(sz.height * 9, 2)

\* <anim.spotLight position={mouse.interpolate((x, y) => [x / 100, -y / 100, 6.5])} />
lightPosition(m) == << Rat(m[1], 100), Rat(-m[2], 100), Rat(13, 2) >>

\* (a variant for C1: the factor pinned to the ends of the ramp)
glitchFactorClamped(t) ==
  createInterpolator(RSeq(<<0, 150>>), RSeq(<<1, 0>>), "clamp", RInt(t))

\* <Effects factor={top.interpolate([0, 150], [1, 0])} />
glitchFactor(t) == interpolate(RSeq(<<0, 150>>), RSeq(<<1, 0>>), RInt(t))

\* (a variant for C2: the two inner colours exchanged)
backgroundStopsSwapped ==
  << <<2, 7, 2, 8, 2, 15>>, <<7, 0, 12, 1, 11, 3>>,
     <<2, 4, 7, 11, 10, 0>>, <<14, 8, 15, 3, 15, 1>> >>

\* '#27282F', '#247BA0', '#70C1B3', '#e8f3f1'
backgroundStops ==
  << <<2, 7, 2, 8, 2, 15>>, <<2, 4, 7, 11, 10, 0>>,
     <<7, 0, 12, 1, 11, 3>>, <<14, 8, 15, 3, 15, 1>> >>

\* [0, scrollMax * 0.25, scrollMax * 0.5, scrollMax]
backgroundRange(sz) ==
  << RInt(0), RMul(scrollMax(sz), Rat(1, 4)), RMul(scrollMax(sz), Rat(1, 2)),
     scrollMax(sz) >>

\* <Background color={top.interpolate([0, scrollMax * 0.25, ...], ['#27282F', ...])} />
backgroundColor(t, sz) == interpolateColor(backgroundRange(sz), backgroundStops, RInt(t))

\* <Stars position={top.interpolate(top => [0, -1 + top / 20, 0])} />
starsPosition(t) == << RInt(0), RAdd(RInt(-1), Rat(t, 20)), RInt(0) >>

\* (a variant for C8: the opacity pinned to the ends of the ramp)
imageOpacityClamped(t) ==
  createInterpolator(RSeq(<<0, 500>>), RSeq(<<0, 1>>), "clamp", RInt(t))

\* opacity={top.interpolate([0, 500], [0, 1])}
imageOpacity(t) == interpolate(RSeq(<<0, 500>>), RSeq(<<0, 1>>), RInt(t))

\* position={interpolate([top, mouse], (top, mouse) => [...])}
imagePosition(t, m, d, sz) ==
  << RAdd(Rat(-m[1] * d.factor, 50000), RInt(d.x)),
     RAdd(RAdd(Rat(m[2] * d.factor, 50000), Rat(d.y * 115, 100)),
          RMul(RDiv(RInt(t * d.factor), scrollMax(sz)), RInt(2))),
     RAdd(RInt(d.z), Rat(t, 2000)) >>

\* <Text opacity={top.interpolate([0, 200], [1, 0])} ...>lorem</Text>
textOpacity(t) == interpolate(RSeq(<<0, 200>>), RSeq(<<1, 0>>), RInt(t))
\* position={top.interpolate(top => [0, -1 + top / 200, 0])}
textPosition(t) == << RInt(0), RAdd(RInt(-1), Rat(t, 200)), RInt(0) >>
\* <Text position={top.interpolate(top => [0, -19 + ((top * 10) / scrollMax) * 2, 0])} ...>
ipsumPosition(t, sz) ==
  << RInt(0),
     RAdd(RInt(-19), RMul(RDiv(RInt(t * 10), scrollMax(sz)), RInt(2))),
     RInt(0) >>

\* Image: scale={factor.interpolate(f => [scale * f, scale * f, 1])}
imageScale(scale, f) == << Rat(scale * f, 100), Rat(scale * f, 100), RInt(1) >>

\* (a variant for C6: the hover target is 1.5)
hoverTargetLarger(h) == IF h THEN 150 ELSE 100

\* Image: useSpring({ factor: hovered ? 1.25 : 1 })
hoverTarget(h) == IF h THEN 125 ELSE 100

\* (a variant for C9: an image's depth follows its hover factor)
SceneHoverDepth(t, m, sz, f, stars) ==
  [ light      |-> lightPosition(m),
    glitch     |-> glitchFactor(t),
    background |-> backgroundColor(t, sz),
    stars      |-> [ position |-> starsPosition(t),
                     rotation |-> stars.rotation,
                     scale    |-> stars.scale ],
    images     |-> [ i \in Images |->
                       [ opacity  |-> imageOpacity(t),
                         position |-> [imagePosition(t, m, data[i], sz)
                                         EXCEPT ![3] = RAdd(@, Rat(f[i] - 100, 100))],
                         scale    |-> imageScale(data[i].scale, f[i]) ] ],
    text       |-> [ opacity |-> textOpacity(t), position |-> textPosition(t) ],
    ipsum      |-> [ position |-> ipsumPosition(t, sz) ] ]

\* Everything Scene and its layers hand to the scene's objects, given the
\* animated values; stars holds what the render callback of Stars set last.
Scene(t, m, sz, f, stars) ==
  [ light      |-> lightPosition(m),
    glitch     |-> glitchFactor(t),
    background |-> backgroundColor(t, sz),
    stars      |-> [ position |-> starsPosition(t),
                     rotation |-> stars.rotation,
                     scale    |-> stars.scale ],
    images     |-> [ i \in Images |->
                       [ opacity  |-> imageOpacity(t),
                         position |-> imagePosition(t, m, data[i], sz),
                         scale    |-> imageScale(data[i].scale, f[i]) ] ],
    text       |-> [ opacity |-> textOpacity(t), position |-> textPosition(t) ],
    ipsum      |-> [ position |-> ipsumPosition(t, sz) ] ]

(***************************************************************************)
(* The springs.  react-spring integrates every animated value toward its   *)
(* target once per animation frame and, once the value is close enough,    *)
(* puts it on the target and stops.  The physics is not modelled: a step   *)
(* covers half of the remaining distance.                                  *)
(***************************************************************************)
SpringStep(v, to) ==
  IF Abs(to - v) <= RestDelta THEN to
  ELSE IF to > v THEN v + (to - v) \div 2
  ELSE v - (v - to) \div 2

\* set(update): the fields update names get a new target, the others keep theirs.
set(update) ==
  [ f \in DOMAIN target |-> IF f \in DOMAIN update THEN update[f] ELSE target[f] ]

(***************************************************************************)
(* Main: the two DOM handlers.                                             *)
(***************************************************************************)
\* (a variant for C5: the scroll handler also recentres mouse)
onScrollRecentre(e) == set([top |-> e.target.scrollTop, mouse |-> <<0, 0>>])

\* (a variant for C7: the scroll handler sets the target once; while a target
\* is pending, later offsets are dropped)
onScrollOnce(e) ==
  IF target.top = top THEN set([top |-> e.target.scrollTop]) ELSE target

\* const onScroll = useCallback(e => set({ top: e.target.scrollTop }), [])
onScroll(e) == set([top |-> e.target.scrollTop])

\* ({ clientX: x, clientY: y }) =>
\*   set({ mouse: [x - window.innerWidth / 2, y - window.innerHeight / 2] })
\* (the sizes of the model are even, so the halves are whole)
onMouseMove(e, window) ==
  set([mouse |-> << e.clientX - window.innerWidth \div 2,
                    e.clientY - window.innerHeight \div 2 >>])

(***************************************************************************)
(* Image: the hover flag.                                                  *)
(***************************************************************************)
\* const hover = useCallback(() => setHover(true), [])
hover(h, i) == [h EXCEPT ![i] = TRUE]
\* const unhover = useCallback(() => setHover(false), [])
unhover(h, i) == [h EXCEPT ![i] = FALSE]

(***************************************************************************)
(* Stars: the render callback, and a re-render of the component.           *)
(***************************************************************************)
\* (a variant for C4: the rotation taken from theta before the increment)
StarsRenderStale(th) ==
  LET th1 == DAdd(th, D001)
      r == 5 * Sin(degToRad(Micro(th)))
      s == Cos(degToRad(Micro(th1) * 2))
  IN  [theta |-> th1, rotation |-> <<r, r, r>>, scale |-> <<s, s, s>>]

\* useRender(() => {
\*   const r = 5 * Math.sin(THREE.Math.degToRad((theta += 0.01)))
\*   const s = Math.cos(THREE.Math.degToRad(theta * 2))
\*   group.current.rotation.set(r, r, r)
\*   group.current.scale.set(s, s, s)
\* })
StarsRender(th) ==
  LET th1 == DAdd(th, D001)
      r == 5 * Sin(degToRad(Micro(th1)))
      s == Cos(degToRad(Micro(th1) * 2))
  IN  [theta |-> th1, rotation |-> <<r, r, r>>, scale |-> <<s, s, s>>]

\* (a variant for C3: the callback is subscribed again at every render, and
\* the accumulator starts over)
StarsRerenderReset(th) == DZero

\* A re-render of Stars runs `let theta = 0` again, which binds a new
\* variable; the callback subscribed at mount keeps the one it closed over.
StarsRerender(th) == th

\* The group as three.js creates it: no rotation, scale 1.
StarsMounted == [rotation |-> <<0, 0, 0>>, scale |-> <<Million, Million, Million>>]

(***************************************************************************)
(* Effects.                                                                *)
(***************************************************************************)
\* useEffect(() => void composer.current.obj.setSize(size.width, size.height),
\*           [size.width, size.height])
setSize(c, sz) == [c EXCEPT !.width = sz.width, !.height = sz.height]

\* useRender(() => composer.current.obj.render(), true): the second argument
\* makes the callback take over the render loop.
takeOverRenderloop == TRUE

(***************************************************************************)
(* Init: the tree is mounted, nothing has been scrolled, moved or hovered. *)
(***************************************************************************)
Init ==
  /\ size \in Sizes
  /\ scrollTop = 0
  /\ pointer \in Pointers
  \* useSpring(() => ({ top: 0, mouse: [0, 0] }))
  /\ top = 0
  /\ mouse = <<0, 0>>
  /\ target = [top |-> 0, mouse |-> <<0, 0>>]
  \* useState(false)
  /\ hovered = [i \in Images |-> FALSE]
  /\ factor = [i \in Images |-> hoverTarget(FALSE)]
  /\ factorTo = [i \in Images |-> hoverTarget(FALSE)]
  \* let theta = 0
  /\ theta = DZero
  /\ frames = 0
  /\ scene = Scene(top, mouse, size, factor, StarsMounted)
  /\ composer = setSize([width |-> 0, height |-> 0, renders |-> 0], size)
  /\ glRenders = 0

(***************************************************************************)
(* The actions.                                                            *)
(***************************************************************************)
\* The user scrolls the container to s; the scroll event runs onScroll.
Scroll(s) ==
  /\ s # scrollTop
  /\ scrollTop' = s
  /\ target' = onScroll([target |-> [scrollTop |-> s]])
  /\ UNCHANGED << size, pointer, top, mouse, hovered, factor, factorTo, theta,
                  frames, scene, composer, glRenders >>

\* The pointer moves to p; the pointer-move event runs onMouseMove.
MouseMove(p) ==
  /\ p # pointer
  /\ pointer' = p
  /\ target' = onMouseMove([clientX |-> p[1], clientY |-> p[2]],
                           [innerWidth |-> size.width, innerHeight |-> size.height])
  /\ UNCHANGED << size, scrollTop, top, mouse, hovered, factor, factorTo, theta,
                  frames, scene, composer, glRenders >>

\* The pointer enters image i: setHover(true), and the Image renders again.
Hover(i) ==
  /\ ~hovered[i]
  /\ hovered' = hover(hovered, i)
  /\ factorTo' = [j \in Images |-> hoverTarget(hovered'[j])]
  /\ UNCHANGED << size, scrollTop, pointer, top, mouse, target, factor, theta,
                  frames, scene, composer, glRenders >>

\* The pointer leaves image i: setHover(false), and the Image renders again.
Unhover(i) ==
  /\ hovered[i]
  /\ hovered' = unhover(hovered, i)
  /\ factorTo' = [j \in Images |-> hoverTarget(hovered'[j])]
  /\ UNCHANGED << size, scrollTop, pointer, top, mouse, target, factor, theta,
                  frames, scene, composer, glRenders >>

\* The window is resized to sz: useThree() hands every component the new
\* size, Scene and its layers render again, and Effects resizes its composer.
Resize(sz) ==
  /\ sz # size
  /\ size' = sz
  /\ theta' = StarsRerender(theta)
  /\ scene' = Scene(top, mouse, sz, factor, scene.stars)
  /\ composer' = setSize(composer, sz)
  /\ UNCHANGED << scrollTop, pointer, top, mouse, target, hovered, factor,
                  factorTo, frames, glRenders >>

\* The springs' part of a frame: every spring moves one step to its target.
Integrate ==
  /\ top' = SpringStep(top, target.top)
  /\ mouse' = << SpringStep(mouse[1], target.mouse[1]),
                 SpringStep(mouse[2], target.mouse[2]) >>
  /\ factor' = [i \in Images |-> SpringStep(factor[i], factorTo[i])]

\* One animation frame, in the order the design gives: the springs step, the
\* animated props are applied, the render callback of Stars runs, and the
\* composer renders the scene (the default render step is skipped when a
\* callback has taken the render loop over).
\* With tracked = FALSE the frame is one after MaxFrames, where the model
\* no longer follows theta.
Tick(tracked) ==
  LET stars == IF tracked THEN StarsRender(theta)
               ELSE [theta |-> theta, rotation |-> scene.stars.rotation,
                     scale |-> scene.stars.scale]
  IN  /\ Integrate
      /\ theta' = stars.theta
      /\ frames' = IF tracked THEN frames + 1 ELSE frames
      /\ scene' = Scene(top', mouse', size, factor', stars)
      /\ composer' = [composer EXCEPT !.renders = IF tracked THEN @ + 1 ELSE @]
      /\ glRenders' = IF takeOverRenderloop \/ ~tracked THEN glRenders
                      ELSE glRenders + 1
      /\ UNCHANGED << size, scrollTop, pointer, target, hovered, factorTo >>

Frame == frames < MaxFrames /\ Tick(TRUE)

FrameBeyond == frames >= MaxFrames /\ Tick(FALSE)

Next ==
  \/ \E s \in ScrollTops : Scroll(s)
  \/ \E p \in Pointers : MouseMove(p)
  \/ \E i \in Images : Hover(i)
  \/ \E i \in Images : Unhover(i)
  \/ \E sz \in Sizes : Resize(sz)
  \/ Frame

Spec == Init /\ [][Next]_vars

\* The frames never stop coming: the host calls the frame callback for as
\* long as the page lives.
LiveNext == Next \/ FrameBeyond

\* What a frame does to the frame count and the springs.  The steps of
\* LiveNext that are FrameDue steps changing one of these are the steps of
\* Frame and the steps of FrameBeyond that move a spring.
FrameDue ==
  /\ Integrate
  /\ frames' = IF frames < MaxFrames THEN frames + 1 ELSE frames

LiveSpec ==
  Init /\ [][LiveNext]_vars /\ WF_<<frames, top, mouse, factor>>(FrameDue)

(***************************************************************************)
(* The claims.                                                             *)
(***************************************************************************)
\* x pinned to [0, 1]
Clamp01(x) == IF RLt(x, RInt(0)) THEN RInt(0) ELSE IF RLt(RInt(1), x) THEN RInt(1) ELSE x

\* C1, as stated: the glitch factor handed to Effects is the clamped linear
\* map of top from [0, 150] to [1, 0]: 1 at top <= 0, 0 at top >= 150,
\* 1 - top/150 between, and so always within [0, 1].
C1_GlitchClamped ==
  /\ scene.glitch = Clamp01(Rat(150 - top, 150))
  /\ RLe(RInt(0), scene.glitch) /\ RLe(scene.glitch, RInt(1))

\* C1, amended: the glitch factor handed to Effects is 1 - top/150 for every
\* top, with no clamp: 1 at top = 0, 0 at top = 150, negative above 150; it is
\* within [0, 1] exactly when 0 <= top <= 150.
C1_GlitchLinear ==
  /\ scene.glitch = Rat(150 - top, 150)
  /\ (top = 0 => scene.glitch = RInt(1))
  /\ (top = 150 => scene.glitch = RInt(0))
  /\ (top > 150 => scene.glitch.n < 0)
  /\ (RLe(RInt(0), scene.glitch) /\ RLe(scene.glitch, RInt(1))) <=> (0 <= top /\ top <= 150)

\* top has passed the end of the ramp, and a frame has applied the factor.
C1_Witness == top > 150 /\ frames > 0 /\ scene.glitch = Rat(150 - top, 150)

\* The four stops of the background ramp, and its four colours.
C2_Stop(k, sz) ==
  IF k = 1 THEN RInt(0)
  ELSE IF k = 2 THEN Rat(sz.height * 9, 8)
  ELSE IF k = 3 THEN Rat(sz.height * 9, 4)
  ELSE Rat(sz.height * 9, 2)
C2_Colors ==
  << [r |-> 39, g |-> 40, b |-> 47], [r |-> 36, g |-> 123, b |-> 160],
     [r |-> 112, g |-> 193, b |-> 179], [r |-> 232, g |-> 243, b |-> 241] >>
\* The line through the stops k and k + 1, at t, channel by channel, rounded.
C2_Line(k, t, sz) ==
  LET u == RDiv(RSub(RInt(t), C2_Stop(k, sz)), RSub(C2_Stop(k + 1, sz), C2_Stop(k, sz)))
      ch(a, b) == RRound(RAdd(RInt(a), RMul(RInt(b - a), u)))
  IN  [r |-> ch(C2_Colors[k].r, C2_Colors[k + 1].r),
       g |-> ch(C2_Colors[k].g, C2_Colors[k + 1].g),
       b |-> ch(C2_Colors[k].b, C2_Colors[k + 1].b)]
\* The segment t lies in (the first for t below 0, the last for t above scrollMax).
C2_Segment(t, sz) ==
  IF RLe(RInt(t), C2_Stop(2, sz)) THEN 1
  ELSE IF RLe(RInt(t), C2_Stop(3, sz)) THEN 2 ELSE 3
C2_AtStops ==
  \A k \in 1..4 : RInt(top) = C2_Stop(k, size) => scene.background = C2_Colors[k]

\* C2, as stated: the background colour is the 4-stop piecewise-linear ramp of
\* top over [0, scrollMax/4, scrollMax/2, scrollMax]: each stop's colour at
\* the stop, linear per channel between two stops, and clamped to the nearest
\* end colour for top outside [0, scrollMax].
C2_RampClamped ==
  /\ C2_AtStops
  /\ scene.background =
       IF top <= 0 THEN C2_Colors[1]
       ELSE IF RLe(C2_Stop(4, size), RInt(top)) THEN C2_Colors[4]
       ELSE C2_Line(C2_Segment(top, size), top, size)

\* C2, amended: the same ramp, each channel rounded to a whole number, and not
\* clamped: above scrollMax each channel goes on along the line of the last
\* segment (below 0, of the first).
C2_RampExtended ==
  /\ C2_AtStops
  /\ scene.background = C2_Line(C2_Segment(top, size), top, size)

\* top is beyond scrollMax, and the colour is past the last stop's.
C2_Witness ==
  /\ RLt(C2_Stop(4, size), RInt(top))
  /\ scene.background.r > 232

\* C8, as stated: the first text's opacity is the clamped linear map of top
\* from [0, 200] to [1, 0], every image's opacity the clamped linear map from
\* [0, 500] to [0, 1], so at top = 0 they are 1 and 0 and both stay in [0, 1].
C8_OpacityClamped ==
  /\ scene.text.opacity = Clamp01(Rat(200 - top, 200))
  /\ \A i \in Images : scene.images[i].opacity = Clamp01(Rat(top, 500))

\* C8, amended: the first text's opacity is 1 - top/200 and every image's
\* opacity is top/500, the same for all images, for every top and with no
\* clamp: 1 and 0 at top = 0, the text's negative above 200, the images' above
\* 1 beyond 500.
C8_OpacityLinear ==
  /\ scene.text.opacity = Rat(200 - top, 200)
  /\ \A i \in Images : scene.images[i].opacity = Rat(top, 500)
  /\ (top = 0 => scene.text.opacity = RInt(1)
                 /\ \A i \in Images : scene.images[i].opacity = RInt(0))
  /\ (top > 200 => scene.text.opacity.n < 0)
  /\ (top > 500 => \A i \in Images : RLt(RInt(1), scene.images[i].opacity))

\* top is beyond both ramps, and a frame has applied the opacities.
C8_Witness ==
  /\ top > 500 /\ frames > 0
  /\ \A i \in Images : RLt(RInt(1), scene.images[i].opacity)

\* 0.01 added n times to 0, each sum rounded to a double.
RECURSIVE DSum(_)
DSum(n) == IF n = 0 THEN DZero ELSE DAdd(DSum(n - 1), D001)

\* C3, as stated: the accumulator starts at 0 and gains exactly 0.01 per frame,
\* so after N frames it equals 0.01 * N; nothing else changes it (no reset, no
\* wrap-around, no re-render of Stars, no scroll or pointer-move event).
C3_ThetaIsProduct == theta = DTimes001(frames)

\* C3, amended: the accumulator starts at 0 and every frame adds the double
\* 0.01 to it, so after N frames it is the N-fold floating-point sum
\* 0.01 + ... + 0.01, which is 0.01 * N up to rounding (equal to it for N <= 5,
\* not for N = 6); it grows with every frame and nothing else changes it (no
\* reset, no wrap-around, no re-render of Stars, no scroll or pointer-move
\* event).
C3_ThetaIsSum ==
  /\ theta = DSum(frames)
  /\ \A n \in 1..frames : DLt(DSum(n - 1), DSum(n))
  /\ (frames <= 5 => theta = DTimes001(frames))

\* Six frames have run (with events and re-renders between them): theta is
\* 0.060000000000000005, and 0.01 * 6 is 0.06.
C3_Witness ==
  /\ frames = 6
  /\ theta = [hi |-> 128849018, lo |-> 236223204]
  /\ DTimes001(6) = [hi |-> 128849018, lo |-> 236223200]
  /\ target.top # 0 /\ composer.width # 80

\* C4, as stated: after a frame has advanced the accumulator to angle, the
\* group's rotation is sin(degToRad(angle)) on all three axes and its scale is
\* cos(2 * angle) on all three axes.
C4_StarsAsStated ==
  frames > 0 =>
    LET r == Sin(degToRad(Micro(theta)))
        s == Cos(2 * Micro(theta))
    IN  /\ scene.stars.rotation = <<r, r, r>>
        /\ scene.stars.scale = <<s, s, s>>

\* C4, amended: after a frame has advanced the accumulator to angle, the
\* group's rotation is 5 * sin(degToRad(angle)) on all three axes and its scale
\* is cos(degToRad(2 * angle)) on all three axes, both from the angle after the
\* increment.
C4_Stars ==
  frames > 0 =>
    LET r == 5 * Sin(degToRad(Micro(theta)))
        s == Cos(degToRad(2 * Micro(theta)))
    IN  /\ scene.stars.rotation = <<r, r, r>>
        /\ scene.stars.scale = <<s, s, s>>

\* Frames have turned the group and begun to shrink it.
C4_Witness ==
  /\ frames > 0
  /\ scene.stars.rotation[1] > 0
  /\ scene.stars.scale[1] < Million

\* C5: the handlers only set targets.  A scroll event makes scrollTop the
\* target of top and leaves the target of mouse and every animated value
\* alone; a pointer-move event makes the pointer's offset from the middle of
\* the window the target of mouse and leaves the target of top and every
\* animated value alone; neither touches a prop of the scene or renders, and a
\* render is made only by a frame.
C5_HandlersSetTargets ==
  [][ /\ scrollTop' # scrollTop =>
           /\ target' = [top |-> scrollTop', mouse |-> target.mouse]
           /\ top' = top /\ mouse' = mouse /\ factor' = factor
           /\ scene' = scene /\ composer' = composer /\ glRenders' = glRenders
      /\ pointer' # pointer =>
           /\ target' = [top |-> target.top,
                         mouse |-> << pointer'[1] - size.width \div 2,
                                      pointer'[2] - size.height \div 2 >>]
           /\ (pointer' = << size.width \div 2, size.height \div 2 >>
                 => target'.mouse = <<0, 0>>)
           /\ top' = top /\ mouse' = mouse /\ factor' = factor
           /\ scene' = scene /\ composer' = composer /\ glRenders' = glRenders
      /\ (composer'.renders # composer.renders \/ glRenders' # glRenders)
           => frames' = frames + 1
    ]_vars

\* Both handlers have run and no frame has followed yet: the targets are set,
\* the values are not there.
C5_Witness ==
  /\ scrollTop = 540 /\ target.top = 540 /\ top # 540
  /\ target.mouse = << pointer[1] - size.width \div 2, pointer[2] - size.height \div 2 >>
  /\ mouse # target.mouse

\* The props C9 lists: all of the scene but the images' scales and the
\* rotation and scale of the stars.
C9_Derived(s) ==
  [ light |-> s.light, glitch |-> s.glitch, background |-> s.background,
    starsPosition |-> s.stars.position,
    images |-> [ i \in Images |->
                   [opacity |-> s.images[i].opacity, position |-> s.images[i].position] ],
    text |-> s.text, ipsum |-> s.ipsum ]

MouseTargets ==
  { << p[1] - sz.width \div 2, p[2] - sz.height \div 2 >> : p \in Pointers, sz \in Sizes }

\* C6: every Image starts with its hover flag false; pointer-enter sets the
\* flag and pointer-leave clears it, for that image only, and neither touches
\* top, mouse or their targets; the target of the hover spring is 1.25 exactly
\* when the flag is set and 1 otherwise; when the flag stays set the rendered
\* scale settles at [scale * 1.25, scale * 1.25, 1], and when it stays clear at
\* [scale, scale, 1].
C6_Hover ==
  /\ \A i \in Images : ~hovered[i]
  /\ [](\A i \in Images : factorTo[i] = IF hovered[i] THEN 125 ELSE 100)
  /\ [][ \A i \in Images :
           hovered'[i] # hovered[i] =>
             /\ hovered'[i] = ~hovered[i]
             /\ \A j \in Images \ {i} :
                  hovered'[j] = hovered[j] /\ factorTo'[j] = factorTo[j]
             /\ top' = top /\ mouse' = mouse /\ target' = target
       ]_vars
  /\ \A i \in Images :
       /\ <>[]hovered[i] =>
            <>[](scene.images[i].scale =
                   << Rat(data[i].scale * 5, 4), Rat(data[i].scale * 5, 4), RInt(1) >>)
       /\ <>[](~hovered[i]) =>
            <>[](scene.images[i].scale =
                   << RInt(data[i].scale), RInt(data[i].scale), RInt(1) >>)

\* One image hovered and settled at 1.25 times its scale, the other untouched.
C6_Witness ==
  /\ hovered[2] /\ ~hovered[1]
  /\ factorTo = <<100, 125>>
  /\ scene.images[2].scale = << Rat(5, 2), Rat(5, 2), RInt(1) >>
  /\ scene.images[1].scale = << RInt(1), RInt(1), RInt(1) >>

\* C7: with the frames coming, top ends at and stays on the offset of the last
\* scroll event, and mouse ends at and stays on the target of the last
\* pointer-move event; a target that a later event replaced is not where the
\* value ends.
C7_Converges ==
  /\ [](target.top = scrollTop)
  /\ \A s \in ScrollTops : <>[](scrollTop = s) => <>[](top = s)
  /\ \A m \in MouseTargets : <>[](target.mouse = m) => <>[](mouse = m)

\* A scroll to 540 was replaced by a scroll to 150 while top was on its way,
\* and top has settled on 150; mouse has settled on a target off the middle.
C7_Witness ==
  /\ scrollTop = 150 /\ top = 150
  /\ frames >= 3
  /\ target.mouse # <<0, 0>> /\ mouse = target.mouse

====
